---- MODULE Spec2Model ----
(***************************************************************************)
(* A model of kei-g/koukoku-backlog-bot, src/src/bot.ts: the Recency Cache *)
(* (Bot.recent), the historical load (queryLogAsync / updateRecent), the   *)
(* live append (appendLogAsync), the per-chunk dispatch (acceptKoukoku),   *)
(* the Command Router (handleCanonicalCommandsAsync), the user-keyword     *)
(* commands and the Keyword Engine, the parenthesis check of the           *)
(* calculation command and the disposal of the bot; and of BotService      *)
(* (src/unnamed/part_000), the handlers of its 'message' and 'speech'      *)
(* events.                                                                 *)
(***************************************************************************)
EXTENDS Integers, Sequences, FiniteSets, TLC

VARIABLES
  stream,        \* the Redis stream Bot.LogKey: sequence of Log, ascending by id
  recent,        \* Bot.recent: [list, map, set]
  last,          \* history: the last operation applied to the Recency Cache
  phase,         \* startAsync: "constructed", "starting", "live"
  settled,       \* the jobs of startAsync's Promise.allSettled that have settled
  pending,       \* Bot.pending: chunks buffered by postponeKoukoku
  received,      \* the records the socket has delivered in 'data' events
  store,         \* the Redis hash Bot.UserKeywordKey: its fields, oldest first
  userKeywords,  \* Bot.userKeywords, in insertion order
  procs,         \* the invocations of acceptKoukoku (of BotService's event handlers
                 \* in ServiceSpec), in the order they were called
  dbq,           \* commands sent to Redis whose reply has not arrived, oldest first
  tasks,         \* calls to the other collaborators that have not settled
  sent,          \* history: the replies the Keyword Engine and the keyword commands
                 \* handed to sendAsync
  expr,          \* calculateAsync: [...matched.groups.expr], one character per element
  outcome,       \* calculateAsync: what validateParentheses(expr) did
  speeches,      \* Bot.speechesSet: the ids of the gists the bot has published
  client,        \* Bot.client, the connection to the feed: "open" or "ended"
  disposing,     \* Bot[Symbol.asyncDispose]: "no", "awaiting", "done", "rejected"
  jobs           \* the jobs of Bot[Symbol.asyncDispose], each with its state

(***************************************************************************)
(* Bounds of the model.                                                    *)
(***************************************************************************)
MaxHistory == 3      \* entries the stream may hold when the bot is constructed
MaxStream == 4       \* entries the stream may hold in all
MaxRecords == 2      \* records the live feed delivers in all (an empty chunk counts as one)
MaxEvents == 2       \* events the telnet client emits to BotService in all

(***************************************************************************)
(* Raw texts (matched[0] of Bot.MessageRE) that occur in the stream before *)
(* the bot starts or arrive in the harness of the Recency Cache.           *)
(***************************************************************************)
Texts == {"t1", "t2", "t3"}

(***************************************************************************)
(* Generic sequence helpers.                                               *)
(***************************************************************************)
Min(a, b) == IF a < b THEN a ELSE b

Max(a, b) == IF a < b THEN b ELSE a

Range(s) == {s[i] : i \in 1..Len(s)}

Reverse(s) == [i \in 1..Len(s) |-> s[Len(s) + 1 - i]]

SeqsUpTo(S, n) == UNION {[1..k -> S] : k \in 0..n}

(***************************************************************************)
(* Stream ids.  XADD '*' returns "<ms>-<seq>", compared by the code with   *)
(* the string operator <; the model numbers the entries 1, 2, ... in the   *)
(* order the server assigns them.                                          *)
(***************************************************************************)
IdLess(a, b) == a < b

Log(id, text) == [id |-> id, message |-> [log |-> text]]

\* db.xAdd(Bot.LogKey, '*', message): the id the server assigns
xAddId(s) == Len(s) + 1

xAdd(s, text) == Append(s, Log(xAddId(s), text))

\* db.xRevRange(Bot.LogKey, start, end): entries with end <= id <= start, newest first
xRevRange(s, start, end) ==
  Reverse(SelectSeq(s, LAMBDA e : ~IdLess(e.id, end) /\ ~IdLess(start, e.id)))

(***************************************************************************)
(* Array.prototype.findIndex / splice / sort as the code uses them.        *)
(***************************************************************************)
\* 0-based index of the first element with value.id < id, -1 when there is none
FindIndex(list, id) ==
  LET hits == {i \in 1..Len(list) : IdLess(list[i].id, id)}
  IN  IF hits = {} THEN -1
      ELSE (CHOOSE i \in hits : \A j \in hits : i <= j) - 1

\* list.splice(start): a negative start counts from the end of the array
SpliceStart(list, start) ==
  IF start < 0 THEN Max(Len(list) + start, 0) ELSE Min(start, Len(list))

SpliceKept(list, start) == SubSeq(list, 1, SpliceStart(list, start))

SpliceRemoved(list, start) == SubSeq(list, SpliceStart(list, start) + 1, Len(list))

\* mutant of compare: the two outcomes swapped
compareSwapped(lhs, rhs) == IF IdLess(lhs.id, rhs.id) THEN -1 ELSE 1

\* the comparator of queryLogAsync: [-1, 1][+(lhs.id < rhs.id)]
compare(lhs, rhs) == IF IdLess(lhs.id, rhs.id) THEN 1 ELSE -1

RECURSIVE SortInsert(_, _)
SortInsert(sorted, x) ==
  IF sorted = <<>> THEN <<x>>
  ELSE IF compare(sorted[Len(sorted)], x) > 0
       THEN Append(SortInsert(SubSeq(sorted, 1, Len(sorted) - 1), x), sorted[Len(sorted)])
       ELSE Append(sorted, x)

RECURSIVE SortBy(_)
SortBy(list) ==
  IF list = <<>> THEN <<>>
  ELSE SortInsert(SortBy(SubSeq(list, 1, Len(list) - 1)), list[Len(list)])

(***************************************************************************)
(* The Recency Cache.                                                      *)
(***************************************************************************)
EmptyRecent == [list |-> <<>>, map |-> <<>>, set |-> {}]

MapSet(map, id, obj) ==
  [i \in DOMAIN map \cup {id} |-> IF i = id THEN obj ELSE map[i]]

\* mutant of appendLog: the record is pushed at the tail
appendLogAtTail(r, obj) ==
  [list |-> r.list \o <<obj>>,
   map  |-> MapSet(r.map, obj.id, obj),
   set  |-> r.set \cup {obj.message.log}]

\* Bot.appendLogAsync after the await: unshift, map.set, set.add
appendLog(r, obj) ==
  [list |-> <<obj>> \o r.list,
   map  |-> MapSet(r.map, obj.id, obj),
   set  |-> r.set \cup {obj.message.log}]

\* mutant of updateRecent: duplicates recognised by id instead of raw text
updateRecentById(r, log) ==
  IF log.id \notin DOMAIN r.map
  THEN LET index == FindIndex(r.list, log.id)
       IN  [list |-> Append(SpliceKept(r.list, index), log) \o SpliceRemoved(r.list, index),
            map  |-> MapSet(r.map, log.id, log),
            set  |-> r.set \cup {log.message.log}]
  ELSE r

\* Bot.updateRecent
updateRecent(r, log) ==
  IF log.message.log \notin r.set
  THEN LET index == FindIndex(r.list, log.id)
           rhs   == SpliceRemoved(r.list, index)
           kept  == SpliceKept(r.list, index)
       IN  [list |-> Append(kept, log) \o rhs,
            map  |-> MapSet(r.map, log.id, log),
            set  |-> r.set \cup {log.message.log}]
  ELSE r

RECURSIVE forEachUpdateRecent(_, _)
forEachUpdateRecent(r, list) ==
  IF list = <<>> THEN r
  ELSE forEachUpdateRecent(updateRecent(r, Head(list)), Tail(list))

\* mutant of queryLog: the trailing sort left out
queryLogUnsorted(r, list) == forEachUpdateRecent(r, list)

\* Bot.queryLogAsync after the await: forEach(updateRecent), then list.sort
queryLog(r, list) ==
  LET merged == forEachUpdateRecent(r, list)
  IN  [merged EXCEPT !.list = SortBy(merged.list)]

\* const parseIntOr, for the counts the model has; anything else is not a number
parseIntOr(text, defaultValue) ==
  CASE text = "1" -> 1
    [] text = "2" -> 2
    [] OTHER -> defaultValue

\* what a reader leaves of the cache, and what it read
Read(r, out) == [recent |-> r, out |-> out]

\* mutant of locateLogs: the records are taken out of the list with splice
locateLogsSplicing(r, count) ==
  LET n == Min(Min(parseIntOr(count, 10), 30), Len(r.list))
  IN  Read([r EXCEPT !.list = SubSeq(@, n + 1, Len(@))], SubSeq(r.list, 1, n))

\* Bot.locateLogsAsync without a command: list.map builds a new array of the
\* bodies, contents.slice takes the first min(count, 30) of it
locateLogs(r, count) ==
  LET contents == [i \in 1..Len(r.list) |-> r.list[i]]
      n == Min(Min(parseIntOr(count, 10), 30), Len(contents))
  IN  Read(r, SubSeq(contents, 1, n))

\* Bot.tallyWeekly: visits every record of the list, newest first
tallyWeekly(r) == Read(r, r.list)

\* Bot.notifyWebClient: send(this.recent.list)
notifyWebClient(r) == Read(r, r.list)

vars == <<stream, recent, last, phase, settled, pending, received, store,
          userKeywords, procs, dbq, tasks, sent, expr, outcome, speeches, client,
          disposing, jobs>>

\* the state the model of the feed does not follow
restVars == <<expr, outcome, speeches, client, disposing, jobs>>

botVars == <<phase, settled, pending, received, store, userKeywords, procs, dbq, tasks, sent,
             restVars>>

(***************************************************************************)
(* CacheSpec: the Recency Cache driven by any sequence of live appends and *)
(* historical merges over any range of the stream.                         *)
(***************************************************************************)
NoOp == [op |-> "none", batch |-> <<>>, before |-> EmptyRecent]

\* the outcome of a validation that has not run
Unchecked == [message |-> "unchecked", opened |-> 0, qualifier |-> <<>>]

\* no calculation is under way
CalcIdle == expr = <<>> /\ outcome = Unchecked

\* the bot is not being disposed
Undisposed == client = "open" /\ disposing = "no" /\ jobs = <<>>

Histories == SeqsUpTo(Texts, MaxHistory)

StreamOf(texts) == [i \in 1..Len(texts) |-> Log(i, texts[i])]

Idle ==
  /\ phase = "constructed"
  /\ settled = {}
  /\ pending = <<>>
  /\ received = 0
  /\ store = <<>>
  /\ userKeywords = <<>>
  /\ procs = <<>>
  /\ dbq = <<>>
  /\ tasks = {}
  /\ sent = {}

CacheInit ==
  /\ \E h \in Histories : stream = StreamOf(h)
  /\ recent = EmptyRecent
  /\ last = NoOp
  /\ Idle
  /\ CalcIdle
  /\ speeches = {}
  /\ Undisposed

\* a live record: xAdd, then appendLogAsync's insertion at the head
CacheAppend(text) ==
  /\ Len(stream) < MaxStream
  /\ stream' = xAdd(stream, text)
  /\ recent' = appendLog(recent, Log(xAddId(stream), text))
  /\ last' = [op |-> "append", batch |-> <<Log(xAddId(stream), text)>>, before |-> recent]
  /\ UNCHANGED botVars

\* queryLogAsync(start, end)
CacheMerge(start, end) ==
  LET list == Reverse(xRevRange(stream, start, end))
  IN  /\ list # <<>>
      /\ recent' = queryLog(recent, list)
      /\ last' = [op |-> "merge", batch |-> list, before |-> recent]
      /\ UNCHANGED <<stream, botVars>>

CacheNext ==
  \/ \E text \in Texts : CacheAppend(text)
  \/ \E start \in 1..MaxStream, end \in 1..MaxStream : CacheMerge(start, end)

CacheSpec == CacheInit /\ [][CacheNext]_vars

(***************************************************************************)
(* ReaderSpec: the Recency Cache with, besides the appends and merges, the *)
(* operations that read it: the log retrieval, the tally and the snapshot  *)
(* for a web client.                                                       *)
(***************************************************************************)
\* groups.count of Bot.LogRE
LogCounts == {"undefined", "1", "2"}

Reads(op, read) ==
  /\ recent' = read.recent
  /\ last' = [op |-> op, batch |-> read.out, before |-> recent]
  /\ UNCHANGED <<stream, botVars>>

LocateLogs(count) == Reads("locate", locateLogs(recent, count))

TallyWeekly == Reads("tally", tallyWeekly(recent))

NotifyWebClient == Reads("notify", notifyWebClient(recent))

ReaderNext ==
  \/ \E text \in Texts : CacheAppend(text)
  \/ \E start \in 1..MaxStream, end \in 1..MaxStream : CacheMerge(start, end)
  \/ \E count \in LogCounts : LocateLogs(count)
  \/ TallyWeekly
  \/ NotifyWebClient

ReaderSpec == CacheInit /\ [][ReaderNext]_vars

(***************************************************************************)
(* The feed.  A message body is a sequence of symbols; the symbols stand   *)
(* for the literals of the patterns: "keisan" 計算, "taiwa" 対話,          *)
(* "komando" コマンド, "risuto" リスト, "herupu" ヘルプ, "bakku" バック,   *)
(* "rogu" ログ, "shuukei" 集計, "honyaku" 翻訳, "kiiwaado" キーワード,     *)
(* "ichiran" 一覧, "touroku" 登録, "kaijo" 解除, " " one blank.            *)
(***************************************************************************)
Threshold == 70

\* UTF-8 length of the shortest text Bot.MessageRE matches
MinRecordBytes == 65

\* the raw texts (matched[0]) the live feed delivers, and their named groups
LiveTexts == {"calc", "trans", "kwlist", "talk", "own"}

\* the raw texts of a feed of keyword commands and of chat that holds keywords
KeywordTexts == {"reg", "regbad", "unreg", "bare", "talk", "spam"}

MessageRE(raw) ==
  CASE raw = "calc"   -> [msg |-> <<"keisan", " ", "1">>, self |-> FALSE]
    [] raw = "trans"  -> [msg |-> <<"honyaku", " ", "hi">>, self |-> FALSE]
    [] raw = "kwlist" -> [msg |-> <<"kiiwaado", "ichiran">>, self |-> FALSE]
    [] raw = "talk"   -> [msg |-> <<"hi", " ", "keisan">>, self |-> FALSE]
    [] raw = "own"    -> [msg |-> <<"keisan", " ", "1">>, self |-> TRUE]
    [] raw = "reg"    -> [msg |-> <<"kiiwaado", "touroku", " ", "neko", " ", "v3">>,
                          self |-> FALSE]
    [] raw = "regbad" -> [msg |-> <<"kiiwaado", "touroku", " ", "neko">>, self |-> FALSE]
    [] raw = "unreg"  -> [msg |-> <<"kiiwaado", "kaijo", " ", "hi">>, self |-> FALSE]
    [] raw = "bare"   -> [msg |-> <<"kiiwaado">>, self |-> FALSE]
    [] raw = "spam"   -> [msg |-> <<"hi", " ", "spam">>, self |-> FALSE]
    [] raw = "t1"     -> [msg |-> <<"hi">>, self |-> FALSE]
    [] raw = "t2"     -> [msg |-> <<"shuukei">>, self |-> FALSE]
    [] raw = "t3"     -> [msg |-> <<"rogu">>, self |-> TRUE]

\* data.toString().replaceAll(/\r?\n/g, '').matchAll(Bot.MessageRE)
matchAll(data) ==
  [k \in 1..Len(data.texts) |->
     [raw |-> data.texts[k], groups |-> MessageRE(data.texts[k])]]

\* bytes around the records of a chunk: they put a chunk of one record, or of
\* none, just below, at and just above the threshold
Paddings(texts) ==
  IF Len(texts) <= 1
  THEN {Threshold - MinRecordBytes + d : d \in {-1, 0, 1}}
  ELSE {Threshold - MinRecordBytes}

Chunks ==
  {[byteLength |-> MinRecordBytes * Max(1, Len(x[1])) + x[2], texts |-> x[1]] :
     x \in {y \in SeqsUpTo(LiveTexts, MaxRecords) \X (0..Threshold) :
              y[2] \in Paddings(y[1])}}

\* the chunks of the keyword feed, each longer than the threshold
KeywordChunks ==
  {[byteLength |-> MinRecordBytes * Len(t) + Threshold - MinRecordBytes + 1, texts |-> t] :
     t \in SeqsUpTo(KeywordTexts, MaxRecords) \ {<<>>}}

\* what a chunk takes of the MaxRecords the model delivers
Cost(data) == Max(1, Len(data.texts))

(***************************************************************************)
(* The patterns of the Command Router, over symbols.                       *)
(***************************************************************************)
ExprSymbols == {" ", "1", "2", "+", "-", "*", "/", "%", "(", ")", ".", "PI", "E",
                "cos", "exp", "log", "sin", "tan"}

AllIn(s, from, S) == \A i \in from..Len(s) : s[i] \in S

\* one or more blanks, then `more` symbols
Blanks(s, more) ==
  /\ Len(s) >= 1 + more
  /\ \A i \in 1..(Len(s) - more) : s[i] = " "

StartsWith(msg, word) == Len(msg) >= 1 /\ msg[1] = word

CalcRE(msg) ==
  /\ StartsWith(msg, "keisan")
  /\ Len(msg) >= 3
  /\ msg[2] = " "
  /\ AllIn(msg, 3, ExprSymbols)

DialogueRE(msg) == StartsWith(msg, "taiwa") /\ Len(msg) >= 3 /\ msg[2] = " "

HelpRE(msg) == msg \in {<<"komando">>, <<"komando", "risuto">>, <<"herupu">>}

Counts == {"1", "2"}

LogRE(msg) ==
  LET rest == IF StartsWith(msg, "bakku") THEN Tail(msg) ELSE msg
      args == Tail(rest)
  IN  /\ StartsWith(rest, "rogu")
      /\ \/ args = <<>>
         \/ Blanks(args, 1) /\ args[Len(args)] \in {"--help"} \cup Counts

TallyRE(msg) == msg \in {<<"shuukei">>, <<"shuukei", " ", "--help">>}

TranslateRE(msg) == StartsWith(msg, "honyaku") /\ Len(msg) >= 3 /\ msg[2] = " "

UserKeywordCommands == {"ichiran", "touroku", "kaijo"}

UserKeywordRE(msg) ==
  LET r1 == Tail(msg)
      r2 == IF r1 # <<>> /\ r1[1] \in UserKeywordCommands THEN Tail(r1) ELSE r1
  IN  /\ StartsWith(msg, "kiiwaado")
      /\ r2 = <<>> \/ (r2[1] = " " /\ Len(r2) >= 2)

\* text.match(a.e) for the e-th entry of `patterns`
Matches(e, msg) ==
  CASE e = 1 -> CalcRE(msg)
    [] e = 2 -> DialogueRE(msg)
    [] e = 3 -> HelpRE(msg)
    [] e = 4 -> LogRE(msg)
    [] e = 5 -> TallyRE(msg)
    [] e = 6 -> TranslateRE(msg)
    [] e = 7 -> UserKeywordRE(msg)

\* the handlers of `patterns`, in table order
Handlers == <<"calculateAsync", "dialogueAsync", "describeGeneralHelp",
              "locateLogsAsync", "handleTallyCommandAsync",
              "translateOrDescribeAsync", "handleUserKeywordCommandAsync">>

\* handlers whose promise settles only when their work has
Awaits(e) == Handlers[e] # "translateOrDescribeAsync"

\* matched.groups.msg.includes(keyword)
Includes(msg, keyword) ==
  \E i \in 1..(Len(msg) - Len(keyword) + 1) :
    SubSeq(msg, i, i + Len(keyword) - 1) = keyword

\* this.ignorePatterns once loadIgnorePatternsAsync has read conf/ignore.json
IgnorePatterns == {"spam"}

\* shouldBeIgnored(matched, patterns) of the ignore-pattern collaborator: a
\* pattern occurs in the body
shouldBeIgnored(matched, patterns) ==
  \E n \in 1..Len(matched.groups.msg) : matched.groups.msg[n] \in patterns

\* Bot.shouldBeAccepted
shouldBeAccepted(matched) == ~shouldBeIgnored(matched, IgnorePatterns)

(***************************************************************************)
(* The user-keyword command family: the groups of Bot.UserKeywordRE and    *)
(* the two-level dispatch of handleUserKeywordCommandAsync.                *)
(***************************************************************************)
Punctuation == {"+", "-", "*", "/", "%", "(", ")", ".", "!", "?"}

\* --help|[\p{scx=Hiragana}\p{scx=Katakana}\p{scx=Han}\w]{1,8}
IsName(x) == x \notin {" "} \cup Punctuation

\* match.groups of Bot.UserKeywordRE; "undefined" and <<>> stand for undefined
UserKeywordGroups(msg) ==
  LET r1 == Tail(msg)
      command == IF r1 # <<>> /\ r1[1] \in UserKeywordCommands THEN r1[1] ELSE "undefined"
      r2 == IF command = "undefined" THEN r1 ELSE Tail(r1)
      named == /\ Len(r2) >= 2 /\ IsName(r2[2])
               /\ Len(r2) = 2 \/ (Len(r2) >= 4 /\ r2[3] = " ")
  IN  [command |-> command,
       name |-> IF named THEN r2[2] ELSE "undefined",
       value |-> IF named THEN SubSeq(r2, 4, Len(r2))
                 ELSE IF r2 = <<>> THEN <<>> ELSE Tail(r2)]

\* the keys of `template`
TemplateKeys == {"--help", "ichiran", "touroku", "kaijo"}

\* Bot.determineUserKeywordCommandHandler
determineUserKeywordCommandHandler(groups) ==
  LET u == IF groups.command # "undefined" /\ groups.command \in TemplateKeys THEN 1 ELSE 0
      v == IF groups.command = "undefined" /\ groups.name # "undefined" THEN 1 ELSE 0
  IN  <<"null", groups.name, groups.command, "null">>[u * 2 + v + 1]

\* the text of a reply of the keyword commands: what it says and about what
Reply(what, about) == <<what, about>>

\* Bot.userKeywords.add(name)
SetAdd(keywords, name) ==
  IF name \in Range(keywords) THEN keywords ELSE Append(keywords, name)

\* mutant of SetDelete: the name stays in the set
SetDeleteNothing(keywords, name) == keywords

\* Bot.userKeywords.delete(name)
SetDelete(keywords, name) == SelectSeq(keywords, LAMBDA k : k # name)

(***************************************************************************)
(* acceptKoukoku.  Each invocation is a process; S carries the state its   *)
(* continuations change, and every operator below runs one continuation    *)
(* up to its next await.                                                   *)
(***************************************************************************)
Cur == [stream |-> stream, dbq |-> dbq, tasks |-> tasks, procs |-> procs, sent |-> sent]

Becomes(S) ==
  /\ stream' = S.stream
  /\ dbq' = S.dbq
  /\ tasks' = S.tasks
  /\ procs' = S.procs
  /\ sent' = S.sent

Task(kind, p, i, x) == [kind |-> kind, p |-> p, i |-> i, x |-> x]

Command(cmd, p, i, x, id) == [cmd |-> cmd, p |-> p, i |-> i, x |-> x, id |-> id]

\* history of one record: the id appendLogAsync returned, the broadcasts
\* started, the handlers the router invoked, the value it returned and the
\* number of times the router and the Keyword Engine ran
NewRun(id) ==
  [id |-> id, broadcast |-> 1, invoked |-> <<>>, indicator |-> "none", router |-> 0,
   keyword |-> 0]

NewProc(data) ==
  [data |-> data, recs |-> matchAll(data), i |-> 0, pc |-> "called", e |-> 0,
   matched |-> FALSE, runs |-> <<>>]

Matched(S, p) == S.procs[p].recs[S.procs[p].i]

\* const log = await this.appendLogAsync(matched[0]), up to the await of xAdd
BeginRecord(S, p) ==
  LET q == S.procs[p]
      k == q.i + 1
  IN  [S EXCEPT !.stream = xAdd(@, q.recs[k].raw),
                !.dbq = Append(@, Command("xAdd", p, k, <<>>, xAddId(S.stream))),
                !.procs[p] = [q EXCEPT !.i = k, !.pc = "xAdd"]]

\* the end of one iteration of the for loop
EndRecord(S, p) ==
  IF S.procs[p].i < Len(S.procs[p].recs)
  THEN BeginRecord(S, p)
  ELSE [S EXCEPT !.procs[p].pc = "done"]

\* await job
AwaitJob(S, p) ==
  IF Task("broadcast", p, S.procs[p].i, <<>>) \in S.tasks
  THEN [S EXCEPT !.procs[p].pc = "job"]
  ELSE EndRecord(S, p)

\* Bot.getUserKeywordRepliesAsync: one hGet per registered keyword in the body
getUserKeywordReplies(p, i, msg) ==
  LET hits == SelectSeq(userKeywords, LAMBDA k : Includes(msg, k))
  IN  [n \in 1..Len(hits) |-> Command("hGet", p, i, hits[n], 0)]

\* Bot.testUserKeywordsAsync, up to the await of Promise.all
testUserKeywords(S, p) ==
  LET q == S.procs[p]
      m == Matched(S, p)
      S1 == [S EXCEPT !.procs[p].runs[q.i].keyword = @ + 1]
      lookups == IF shouldBeAccepted(m)
                 THEN getUserKeywordReplies(p, q.i, m.groups.msg)
                 ELSE <<>>
  IN  IF lookups = <<>>
      THEN AwaitJob(S1, p)
      ELSE [S1 EXCEPT !.dbq = @ \o lookups, !.procs[p].pc = "keywords"]

LastEntry == Len(Handlers)

\* mutant of placeholder: the indicator accumulated over the entries
placeholderAny(before, matched) == before \/ matched

\* placeholder.matched = !!matched
placeholder(before, matched) == matched

\* acceptKoukoku once handleCanonicalCommandsAsync has returned `value`
afterRouter(S, p, value) ==
  LET S1 == [S EXCEPT !.procs[p].runs[S.procs[p].i].indicator =
                        IF value THEN "true" ELSE "false"]
  IN  IF value THEN AwaitJob(S1, p) ELSE testUserKeywords(S1, p)

\* sendAsync(text) by the handler of entry e for the current record of p
sendAsync(S, p, e, text) ==
  [S EXCEPT !.sent = @ \cup {[p |-> p, i |-> S.procs[p].i, keyword |-> <<>>, text |-> text]},
            !.tasks = @ \cup {Task("handler", p, S.procs[p].i, <<Handlers[e]>>)}]

\* Bot.handleUserKeywordCommandAsync for a key of the template, up to the
\* first await of the handler it selects
handleUserKeywordCommand(S, p, e) ==
  LET i == S.procs[p].i
      groups == UserKeywordGroups(Matched(S, p).groups.msg)
      key == determineUserKeywordCommandHandler(groups)
      name == groups.name # "undefined"
      value == groups.value # <<>>
      syntax == Reply("syntax", groups.command)
      other == [S EXCEPT !.tasks = @ \cup {Task("handler", p, i, <<Handlers[e]>>)}]
  IN  CASE key = "touroku" ->
             IF name /\ value
             THEN [S EXCEPT !.dbq = Append(@, Command("hSetNX", p, i,
                                                      <<groups.name>> \o groups.value, 0))]
             ELSE sendAsync(S, p, e, syntax)
        [] key = "kaijo" ->
             IF name /\ ~value
             THEN [S EXCEPT !.dbq = Append(@, Command("hDel", p, i, <<groups.name>>, 0))]
             ELSE sendAsync(S, p, e, syntax)
        [] key = "ichiran" ->
             IF name \/ value THEN sendAsync(S, p, e, syntax) ELSE other
        [] OTHER -> other

\* whether the promise of the handler of entry e is pending when it returns
Suspends(e, msg) ==
  /\ Awaits(e)
  /\ Handlers[e] = "handleUserKeywordCommandAsync" =>
       determineUserKeywordCommandHandler(UserKeywordGroups(msg)) \in TemplateKeys

\* a.f(matched), up to its first await
invoke(S, p, e) ==
  IF Handlers[e] = "handleUserKeywordCommandAsync"
  THEN handleUserKeywordCommand(S, p, e)
  ELSE [S EXCEPT !.tasks = @ \cup {Task(IF Awaits(e) THEN "handler" ELSE "floating",
                                        p, S.procs[p].i, <<Handlers[e]>>)}]

\* Bot.handleCanonicalCommandsAsync from entry e on, up to the next await
RECURSIVE handleCanonicalCommands(_, _, _)
handleCanonicalCommands(S, p, e) ==
  LET q == S.procs[p]
      msg == Matched(S, p).groups.msg
  IN  IF e > LastEntry
      THEN afterRouter(S, p, q.matched)
      ELSE IF Matches(e, msg)
           THEN LET S1 == [S EXCEPT !.procs[p].runs[q.i].invoked = Append(@, e)]
                    S2 == IF Suspends(e, msg) \/ ~Awaits(e) THEN invoke(S1, p, e) ELSE S1
                IN  IF Suspends(e, msg)
                    THEN [S2 EXCEPT !.procs[p].pc = "handler", !.procs[p].e = e]
                    ELSE handleCanonicalCommands(
                           [S2 EXCEPT !.procs[p].matched = placeholder(@, TRUE)], p, e + 1)
           ELSE handleCanonicalCommands(
                  [S EXCEPT !.procs[p].matched = placeholder(@, FALSE)], p, e + 1)

\* mutant of afterAppend: self-authored records are routed like the others
afterAppendRoutesAll(S, p, log) ==
  LET q == S.procs[p]
      S1 == [S EXCEPT !.tasks = @ \cup {Task("broadcast", p, q.i, <<>>)},
                      !.procs[p].runs = Append(@, NewRun(log.id))]
  IN  handleCanonicalCommands([S1 EXCEPT !.procs[p].runs[q.i].router = @ + 1], p, 1)

\* acceptKoukoku after appendLogAsync has returned `log`
afterAppend(S, p, log) ==
  LET q == S.procs[p]
      S1 == [S EXCEPT !.tasks = @ \cup {Task("broadcast", p, q.i, <<>>)},
                      !.procs[p].runs = Append(@, NewRun(log.id))]
  IN  IF Matched(S, p).groups.self
      THEN AwaitJob(S1, p)
      ELSE handleCanonicalCommands([S1 EXCEPT !.procs[p].runs[q.i].router = @ + 1], p, 1)

\* mutant of acceptKoukoku: the byte length of the chunk is not tested
acceptKoukokuAnyLength(S, data) ==
  IF matchAll(data) # <<>>
  THEN BeginRecord([S EXCEPT !.procs = Append(@, NewProc(data))], Len(S.procs) + 1)
  ELSE S

\* Bot.acceptKoukoku(data), up to its first await
acceptKoukoku(S, data) ==
  IF Threshold < data.byteLength /\ matchAll(data) # <<>>
  THEN BeginRecord([S EXCEPT !.procs = Append(@, NewProc(data))], Len(S.procs) + 1)
  ELSE S

\* mutant of forEachStore: the buffered chunks are handed over newest first
RECURSIVE forEachStoreReversed(_, _)
forEachStoreReversed(S, list) ==
  IF list = <<>> THEN S
  ELSE acceptKoukoku(forEachStoreReversed(S, Tail(list)), Head(list))

\* this.pending.splice(0).forEach(store)
RECURSIVE forEachStore(_, _)
forEachStore(S, list) ==
  IF list = <<>> THEN S
  ELSE forEachStore(acceptKoukoku(S, Head(list)), Tail(list))

\* the lookups of record i of process p that have not settled
Lookups(S, p, i) ==
  {n \in 1..Len(S.dbq) : S.dbq[n].cmd = "hGet" /\ S.dbq[n].p = p /\ S.dbq[n].i = i}

Replies(S, p, i) == {t \in S.tasks : t.kind = "reply" /\ t.p = p /\ t.i = i}

(***************************************************************************)
(* Spec: the bot from its construction on.                                 *)
(***************************************************************************)
\* the keywords registered in the store when the bot starts, oldest first
InitialStore ==
  <<[key |-> <<"keisan">>, value |-> <<"v1">>], [key |-> <<"hi">>, value |-> <<"v2">>]>>

\* db.hKeys(Bot.UserKeywordKey)
hKeys(h) == [n \in 1..Len(h) |-> h[n].key]

\* db.hGet(Bot.UserKeywordKey, keyword)
hGet(h, keyword) ==
  LET found == SelectSeq(h, LAMBDA f : f.key = keyword)
  IN  IF found = <<>> THEN <<"null">> ELSE found[1].value

StartupJobs == {"queryUserKeywordsAsync", "queryLogAsync"}

\* the stream the bot finds: MaxHistory entries t1, t2, t1, ...
Backlog == [i \in 1..MaxHistory |-> IF i % 2 = 1 THEN "t1" ELSE "t2"]

Init ==
  /\ stream = StreamOf(Backlog)
  /\ recent = EmptyRecent
  /\ last = NoOp
  /\ phase = "constructed"
  /\ settled = {}
  /\ pending = <<>>
  /\ received = 0
  /\ store = InitialStore
  /\ userKeywords = <<>>
  /\ procs = <<>>
  /\ dbq = <<>>
  /\ tasks = {}
  /\ sent = {}
  /\ CalcIdle
  /\ speeches = {}
  /\ Undisposed

\* Bot.startAsync, up to the await of Promise.allSettled
StartAsync ==
  /\ phase = "constructed"
  /\ phase' = "starting"
  /\ userKeywords' = <<>>
  /\ dbq' = dbq \o <<Command("hKeys", 0, 0, <<>>, 0), Command("xRevRange", 0, 0, <<>>, 0)>>
  /\ UNCHANGED <<restVars, stream, recent, last, settled, pending, received, store,
                 procs, tasks, sent>>

\* Bot.queryUserKeywordsAsync after the await of hKeys
HKeysReply ==
  /\ dbq # <<>> /\ Head(dbq).cmd = "hKeys"
  /\ dbq' = Tail(dbq)
  /\ userKeywords' = hKeys(store)
  /\ settled' = settled \cup {"queryUserKeywordsAsync"}
  /\ UNCHANGED <<restVars, stream, recent, last, phase, pending, received, store,
                 procs, tasks, sent>>

\* Bot.queryLogAsync('+', '-') after the await of xRevRange
XRevRangeReply ==
  /\ dbq # <<>> /\ Head(dbq).cmd = "xRevRange"
  /\ dbq' = Tail(dbq)
  /\ recent' = queryLog(recent, Reverse(xRevRange(stream, Len(stream), 1)))
  /\ settled' = settled \cup {"queryLogAsync"}
  /\ UNCHANGED <<restVars, stream, last, phase, pending, received, store, userKeywords,
                 procs, tasks, sent>>

\* Bot.startAsync after Promise.allSettled: the sink is switched over
SwitchOver ==
  /\ phase = "starting"
  /\ settled = StartupJobs
  /\ phase' = "live"
  /\ pending' = <<>>
  /\ Becomes(forEachStore(Cur, pending))
  /\ UNCHANGED <<restVars, recent, last, settled, received, store, userKeywords>>

\* the socket's 'data' event while Bot.postponeKoukoku is the listener
PostponeKoukoku(data) ==
  /\ phase # "live"
  /\ received + Cost(data) <= MaxRecords
  /\ received' = received + Cost(data)
  /\ pending' = IF Threshold < data.byteLength THEN Append(pending, data) ELSE pending
  /\ UNCHANGED <<restVars, stream, recent, last, phase, settled, store, userKeywords,
                 procs, dbq,
                 tasks, sent>>

\* the socket's 'data' event while Bot.acceptKoukoku is the listener
AcceptKoukoku(data) ==
  /\ phase = "live"
  /\ received + Cost(data) <= MaxRecords
  /\ received' = received + Cost(data)
  /\ Becomes(acceptKoukoku(Cur, data))
  /\ UNCHANGED <<restVars, recent, last, phase, settled, pending, store, userKeywords>>

\* Bot.appendLogAsync after the await of xAdd, and acceptKoukoku after it
XAddReply ==
  /\ dbq # <<>> /\ Head(dbq).cmd = "xAdd"
  /\ LET c == Head(dbq)
         obj == Log(c.id, procs[c.p].recs[c.i].raw)
     IN  /\ recent' = appendLog(recent, obj)
         /\ Becomes(afterAppend([Cur EXCEPT !.dbq = Tail(dbq)], c.p, obj))
  /\ UNCHANGED <<restVars, last, phase, settled, pending, received, store, userKeywords>>

\* a handler the router awaits settles: it returns, or it throws
HandlerSettles(t, ok) ==
  /\ t \in tasks /\ t.kind = "handler"
  /\ LET S == [Cur EXCEPT !.tasks = @ \ {t}]
     IN  Becomes(IF ok
                 THEN handleCanonicalCommands(
                        [S EXCEPT !.procs[t.p].matched = placeholder(@, TRUE)],
                        t.p, procs[t.p].e + 1)
                 ELSE [S EXCEPT !.procs[t.p].pc = "rejected"])
  /\ UNCHANGED <<restVars, recent, last, phase, settled, pending, received, store,
                 userKeywords>>

\* the work translateOrDescribeAsync started without awaiting it settles
FloatingSettles(t) ==
  /\ t \in tasks /\ t.kind = "floating"
  /\ tasks' = tasks \ {t}
  /\ UNCHANGED <<restVars, stream, recent, last, phase, settled, pending, received, store,
                 userKeywords, procs, dbq, sent>>

\* testUserKeywordsAsync: a lookup returns and its reply is handed to sendAsync
HGetReply ==
  /\ dbq # <<>> /\ Head(dbq).cmd = "hGet"
  /\ LET c == Head(dbq)
     IN  /\ dbq' = Tail(dbq)
         /\ sent' = sent \cup {[p |-> c.p, i |-> c.i, keyword |-> c.x,
                                text |-> hGet(store, c.x)]}
         /\ tasks' = tasks \cup {Task("reply", c.p, c.i, c.x)}
  /\ UNCHANGED <<restVars, stream, recent, last, phase, settled, pending, received, store,
                 userKeywords, procs>>

\* registerUserKeywordAsync after the await of hSetNX, up to the await of
\* sendAsync: the server sets the field if it does not exist
HSetNXReply ==
  /\ dbq # <<>> /\ Head(dbq).cmd = "hSetNX"
  /\ LET c == Head(dbq)
         name == <<Head(c.x)>>
         set == name \notin Range(hKeys(store))
         text == Reply(IF set THEN "registered" ELSE "exists", Head(c.x))
     IN  /\ store' = IF set THEN Append(store, [key |-> name, value |-> Tail(c.x)]) ELSE store
         /\ userKeywords' = IF text[1] = "registered" THEN SetAdd(userKeywords, name)
                            ELSE userKeywords
         /\ Becomes(sendAsync([Cur EXCEPT !.dbq = Tail(dbq)], c.p, procs[c.p].e, text))
  /\ UNCHANGED <<restVars, recent, last, phase, settled, pending, received>>

\* unregisterUserKeywordAsync after the await of hDel, up to the await of
\* sendAsync: the server deletes the field if it exists
HDelReply ==
  /\ dbq # <<>> /\ Head(dbq).cmd = "hDel"
  /\ LET c == Head(dbq)
         name == <<Head(c.x)>>
         deleted == name \in Range(hKeys(store))
         text == Reply(IF deleted THEN "unregistered" ELSE "absent", Head(c.x))
     IN  /\ store' = SelectSeq(store, LAMBDA f : f.key # name)
         /\ userKeywords' = IF text[1] = "unregistered" THEN SetDelete(userKeywords, name)
                            ELSE userKeywords
         /\ Becomes(sendAsync([Cur EXCEPT !.dbq = Tail(dbq)], c.p, procs[c.p].e, text))
  /\ UNCHANGED <<restVars, recent, last, phase, settled, pending, received>>

\* sendAsync of a keyword reply settles; Promise.all resolves with the last
\* one and rejects with the first that fails
ReplySettles(t, ok) ==
  /\ t \in tasks /\ t.kind = "reply"
  /\ LET S == [Cur EXCEPT !.tasks = @ \ {t}]
         waiting == procs[t.p].pc = "keywords" /\ procs[t.p].i = t.i
     IN  Becomes(IF ~waiting THEN S
                 ELSE IF ~ok THEN [S EXCEPT !.procs[t.p].pc = "rejected"]
                 ELSE IF Lookups(S, t.p, t.i) = {} /\ Replies(S, t.p, t.i) = {}
                      THEN AwaitJob(S, t.p)
                      ELSE S)
  /\ UNCHANGED <<restVars, recent, last, phase, settled, pending, received, store,
                 userKeywords>>

\* web.broadcastAsync(log) settles
BroadcastSettles(t) ==
  /\ t \in tasks /\ t.kind = "broadcast"
  /\ LET S == [Cur EXCEPT !.tasks = @ \ {t}]
     IN  Becomes(IF procs[t.p].pc = "job" /\ procs[t.p].i = t.i
                 THEN EndRecord(S, t.p)
                 ELSE S)
  /\ UNCHANGED <<restVars, recent, last, phase, settled, pending, received, store,
                 userKeywords>>

Next ==
  \/ StartAsync
  \/ HKeysReply
  \/ XRevRangeReply
  \/ SwitchOver
  \/ \E data \in Chunks : PostponeKoukoku(data)
  \/ \E data \in Chunks : AcceptKoukoku(data)
  \/ XAddReply
  \/ HGetReply
  \/ \E t \in tasks, ok \in BOOLEAN : HandlerSettles(t, ok)
  \/ \E t \in tasks : FloatingSettles(t)
  \/ \E t \in tasks, ok \in BOOLEAN : ReplySettles(t, ok)
  \/ \E t \in tasks : BroadcastSettles(t)

Spec == Init /\ [][Next]_vars

(***************************************************************************)
(* KeywordSpec: the bot on a feed of keyword commands and of chat that     *)
(* holds keywords.                                                         *)
(***************************************************************************)
KeywordNext ==
  \/ StartAsync
  \/ HKeysReply
  \/ XRevRangeReply
  \/ SwitchOver
  \/ \E data \in KeywordChunks : PostponeKoukoku(data)
  \/ \E data \in KeywordChunks : AcceptKoukoku(data)
  \/ XAddReply
  \/ HGetReply
  \/ HSetNXReply
  \/ HDelReply
  \/ \E t \in tasks, ok \in BOOLEAN : HandlerSettles(t, ok)
  \/ \E t \in tasks, ok \in BOOLEAN : ReplySettles(t, ok)
  \/ \E t \in tasks : BroadcastSettles(t)

KeywordSpec == Init /\ [][KeywordNext]_vars

(***************************************************************************)
(* CalcSpec: validateParentheses, the check calculateAsync runs on the     *)
(* expression before it evaluates it, applied to any expression of up to   *)
(* MaxExpr characters.                                                     *)
(***************************************************************************)
MaxExpr == 4

\* characters of the class of Bot.CalcRE
ExprChars == {"(", ")", "1", "+", " ", "s", "i", "n", "E"}

Digits == {"0", "1", "2", "3", "4", "5", "6", "7", "8", "9"}

\* const valueForParenthesis; a character outside its domain yields undefined
valueForParenthesis ==
  [c \in {" ", "%", "(", ")", "*", "+", "-", ".", "/"} \cup Digits |->
     CASE c = "(" -> 1
       [] c = ")" -> 0 - 1
       [] OTHER -> 0]

\* String.prototype.trim, for the blank the model has
RECURSIVE trimStart(_)
trimStart(q) == IF q # <<>> /\ Head(q) = " " THEN trimStart(Tail(q)) ELSE q

trim(q) == Reverse(trimStart(Reverse(trimStart(q))))

Functions == {<<"c", "o", "s">>, <<"e", "x", "p">>, <<"l", "o", "g">>, <<"s", "i", "n">>,
              <<"t", "a", "n">>}

\* new Error(message): the message, with the value interpolated into it
Error(message, opened, qualifier) ==
  [message |-> message, opened |-> opened, qualifier |-> qualifier]

Returned == Error("none", 0, <<>>)

\* const validateQualifier: what it throws, Returned when it returns
validateQualifier(ctx) ==
  IF Len(ctx.qualifier) # 0 /\ trim(ctx.qualifier) \notin Functions
  THEN Error("notFunction", 0, ctx.qualifier)
  ELSE Returned

\* const updateParenthesisContext; ctx.thrown is what was thrown so far
updateParenthesisContext(ctx, c) ==
  IF ctx.thrown # Returned THEN ctx
  ELSE IF c \notin DOMAIN valueForParenthesis
  THEN [ctx EXCEPT !.qualifier = Append(@, c)]
  ELSE IF validateQualifier(ctx) # Returned
  THEN [ctx EXCEPT !.thrown = validateQualifier(ctx)]
  ELSE [ctx EXCEPT !.opened = @ + valueForParenthesis[c], !.qualifier = <<>>]

\* [...expr].reduce(updateParenthesisContext, ctx)
RECURSIVE reduce(_, _)
reduce(chars, ctx) ==
  IF chars = <<>> THEN ctx
  ELSE reduce(Tail(chars), updateParenthesisContext(ctx, Head(chars)))

\* isNaN(opened): opened is a sum of the integers of valueForParenthesis
isNaN(opened) == opened \notin Int

\* messages[(+isNaN(opened)) * 2 + +(opened === 0)]
messageFor(opened) ==
  LET messages == <<Error("missingClosing", opened, <<>>),
                    Error("undefined", 0, <<>>),
                    Error("invalidClosing", 0, <<>>)>>
      index == (IF isNaN(opened) THEN 1 ELSE 0) * 2 + (IF opened = 0 THEN 1 ELSE 0)
  IN  messages[index + 1]

\* const validateParentheses: what it throws, Returned when it returns
validateParentheses(chars) ==
  LET parenthesis == reduce(chars, [opened |-> 0, qualifier |-> <<>>, thrown |-> Returned])
      message == messageFor(parenthesis.opened)
  IN  IF parenthesis.thrown # Returned THEN parenthesis.thrown
      ELSE IF message.message # "undefined" THEN message
      ELSE Returned

\* the expressions CalcRE lets through: one character or more
Exprs == SeqsUpTo(ExprChars, MaxExpr) \ {<<>>}

CalcInit ==
  /\ stream = <<>>
  /\ recent = EmptyRecent
  /\ last = NoOp
  /\ Idle
  /\ speeches = {}
  /\ Undisposed
  /\ expr \in Exprs
  /\ outcome = Unchecked

\* calculateAsync, up to the return of validateParentheses(expr)
Validate ==
  /\ outcome = Unchecked
  /\ outcome' = validateParentheses(expr)
  /\ UNCHANGED <<stream, recent, last, phase, settled, pending, received, store,
                 userKeywords, procs, dbq, tasks, sent, expr, speeches, client,
                 disposing, jobs>>

CalcNext == Validate

CalcSpec == CalcInit /\ [][CalcNext]_vars

(***************************************************************************)
(* DisposeSpec: Bot[Symbol.asyncDispose] on an idle bot that has published *)
(* up to MaxGists gists.                                                   *)
(***************************************************************************)
MaxGists == 2

Job(kind, id) == [kind |-> kind, id |-> id, state |-> "pending"]

\* for (const speech of this.speechesSet) jobs.push(GitHub.deleteGistAsync(speech.id))
RECURSIVE deleteGists(_)
deleteGists(ids) ==
  IF ids = {} THEN <<>>
  ELSE LET id == CHOOSE x \in ids : \A y \in ids : x <= y
       IN  <<Job("deleteGistAsync", id)>> \o deleteGists(ids \ {id})

DisposeInit ==
  /\ stream = <<>>
  /\ recent = EmptyRecent
  /\ last = NoOp
  /\ Idle
  /\ CalcIdle
  /\ speeches \in SUBSET (1..MaxGists)
  /\ Undisposed

\* Bot[Symbol.asyncDispose], up to the await of Promise.all(jobs)
AsyncDispose ==
  /\ disposing = "no"
  /\ jobs' = <<Job("web", 0)>> \o deleteGists(speeches) \o <<Job("db.disconnect", 0)>>
  /\ client' = "ended"
  /\ disposing' = "awaiting"
  /\ UNCHANGED <<stream, recent, last, phase, settled, pending, received, store,
                 userKeywords, procs, dbq, tasks, sent, expr, outcome, speeches>>

\* one of the jobs settles; Promise.all rejects with the first job that
\* fails and resolves when the last one has fulfilled
JobSettles(n, ok) ==
  /\ n \in DOMAIN jobs /\ jobs[n].state = "pending"
  /\ jobs' = [jobs EXCEPT ![n].state = IF ok THEN "fulfilled" ELSE "rejected"]
  /\ disposing' = IF disposing # "awaiting" THEN disposing
                  ELSE IF ~ok THEN "rejected"
                  ELSE IF \A m \in DOMAIN jobs : jobs'[m].state = "fulfilled" THEN "done"
                  ELSE disposing
  /\ UNCHANGED <<stream, recent, last, phase, settled, pending, received, store,
                 userKeywords, procs, dbq, tasks, sent, expr, outcome, speeches, client>>

DisposeNext ==
  \/ AsyncDispose
  \/ \E n \in 1..(MaxGists + 2), ok \in BOOLEAN : JobSettles(n, ok)

DisposeSpec == DisposeInit /\ [][DisposeNext]_vars

(***************************************************************************)
(* ServiceSpec: BotService, from its construction on.  The telnet client   *)
(* emits 'message' and 'speech' events; the emitter does not wait for a    *)
(* handler, so the handlers of several events run interleaved.  A command  *)
(* service is known by its name, a body by the set of the command services *)
(* whose match succeeds on it.                                             *)
(***************************************************************************)
\* this.#resolver.filter(isCommandService), in the order of the resolver
CommandServices == <<"A", "B">>

Bodies == SUBSET Range(CommandServices)

\* the RegExpMatchArray of an event: groups.self and groups.body
Events == [self : BOOLEAN, body : Bodies]

Undefined == [by |-> "undefined"]

Nullish == {"undefined", "null"}

\* service.match(body): the match, null when there is none
match(service, body) == IF service \in body THEN [by |-> service] ELSE [by |-> "null"]

\* Array.prototype.find with the predicate !!(found.matched ??= service.match(body))
RECURSIVE find(_, _, _)
find(services, body, found) ==
  IF services = <<>> THEN [service |-> "undefined", matched |-> found]
  ELSE LET matched == IF found.by \in Nullish THEN match(Head(services), body) ELSE found
       IN  IF matched.by \notin Nullish
           THEN [service |-> Head(services), matched |-> matched]
           ELSE find(Tail(services), body, matched)

Handler(kind, service, matched) == [kind |-> kind, service |-> service, matched |-> matched]

\* mutant of findHandler: the command services are tried last to first
findHandlerLast(matched) ==
  LET found == find(Reverse(CommandServices), matched.body, Undefined)
  IN  IF found.service # "undefined"
      THEN Handler("execute", found.service, found.matched)
      ELSE Handler("test", "userKeywordService", Undefined)

\* BotService.#findHandler
findHandler(matched) ==
  LET found == find(CommandServices, matched.body, Undefined)
  IN  IF found.service # "undefined"
      THEN Handler("execute", found.service, found.matched)
      ELSE Handler("test", "userKeywordService", Undefined)

\* one invocation of #message or #speech: item is whether prepend has
\* returned the item; broadcasts and invoked are history
NewEvent(kind, matched) ==
  [kind |-> kind, matched |-> matched, pc |-> "prepend", item |-> FALSE, broadcasts |-> 0,
   invoked |-> <<>>, failed |-> FALSE]

\* the promises a handler pushed to its PromiseList that have not settled
Pushed(ts, p) == {t \in ts : t.p = p /\ t.kind \in {"broadcast", "execute", "test"}}

\* PromiseList[Symbol.asyncDispose]: settles once every promise pushed has
\* settled, and rejects if one of them did
asyncDisposeList(q, ts, p) ==
  IF Pushed(ts, p) # {} THEN q
  ELSE [q EXCEPT !.pc = IF q.failed THEN "rejected" ELSE "done"]

ServiceInit ==
  /\ stream = <<>>
  /\ recent = EmptyRecent
  /\ last = NoOp
  /\ Idle
  /\ CalcIdle
  /\ speeches = {}
  /\ Undisposed

\* telnetClientService emits 'message': #message up to `await job`
OnMessage(matched) ==
  /\ Len(procs) < MaxEvents
  /\ procs' = Append(procs, NewEvent("message", matched))
  /\ tasks' = tasks \cup {Task("prepend", Len(procs) + 1, 0, <<>>)}
  /\ UNCHANGED <<restVars, stream, recent, last, phase, settled, pending, received, store,
                 userKeywords, dbq, sent>>

\* telnetClientService emits 'speech': #speech up to `await job`
OnSpeech(matched) ==
  /\ Len(procs) < MaxEvents
  /\ procs' = Append(procs, NewEvent("speech", matched))
  /\ tasks' = tasks \cup {Task("prepend", Len(procs) + 1, 0, <<>>)}
  /\ UNCHANGED <<restVars, stream, recent, last, phase, settled, pending, received, store,
                 userKeywords, dbq, sent>>

\* #message after `await job`, up to the disposal of the list at the end of
\* the block
message(q, p) ==
  LET handler == findHandler(q.matched)
      called == IF q.matched.self THEN <<>> ELSE <<handler>>
  IN  [proc |-> [q EXCEPT !.item = TRUE, !.broadcasts = @ + 1, !.invoked = @ \o called,
                          !.pc = "dispose"],
       pushed |-> {Task("broadcast", p, 0, <<>>)}
                    \cup {Task(called[n].kind, p, 0, <<>>) : n \in 1..Len(called)}]

\* #speech after `await job`: the broadcast is started and not awaited
speech(q, p) ==
  [proc |-> [q EXCEPT !.item = TRUE, !.broadcasts = @ + 1, !.pc = "done"],
   pushed |-> {Task("floating", p, 0, <<>>)}]

\* this.#logService.prepend settles: it returns the item, or it throws
PrependSettles(t, ok) ==
  /\ t \in tasks /\ t.kind = "prepend"
  /\ LET q == procs[t.p]
         r == IF ~ok THEN [proc |-> [q EXCEPT !.pc = "rejected", !.failed = TRUE], pushed |-> {}]
              ELSE IF q.kind = "message" THEN message(q, t.p)
              ELSE speech(q, t.p)
     IN  /\ procs' = [procs EXCEPT ![t.p] = r.proc]
         /\ tasks' = (tasks \ {t}) \cup r.pushed
  /\ UNCHANGED <<restVars, stream, recent, last, phase, settled, pending, received, store,
                 userKeywords, dbq, sent>>

\* a promise pushed to the list of #message settles
PushedSettles(t, ok) ==
  /\ t \in Pushed(tasks, t.p)
  /\ tasks' = tasks \ {t}
  /\ procs' = [procs EXCEPT ![t.p] =
                 asyncDisposeList([@ EXCEPT !.failed = @ \/ ~ok], tasks', t.p)]
  /\ UNCHANGED <<restVars, stream, recent, last, phase, settled, pending, received, store,
                 userKeywords, dbq, sent>>

\* the broadcast #speech started settles
SpeechBroadcastSettles(t) ==
  /\ t \in tasks /\ t.kind = "floating"
  /\ tasks' = tasks \ {t}
  /\ UNCHANGED <<restVars, stream, recent, last, phase, settled, pending, received, store,
                 userKeywords, procs, dbq, sent>>

ServiceNext ==
  \/ \E matched \in Events : OnMessage(matched)
  \/ \E matched \in Events : OnSpeech(matched)
  \/ \E t \in tasks, ok \in BOOLEAN : PrependSettles(t, ok)
  \/ \E t \in tasks, ok \in BOOLEAN : PushedSettles(t, ok)
  \/ \E t \in tasks : SpeechBroadcastSettles(t)

ServiceSpec == ServiceInit /\ [][ServiceNext]_vars

(***************************************************************************)
(* C1.  After any sequence of appends and merges the cached sequence is    *)
(* sorted strictly descending by id.                                       *)
(***************************************************************************)
StrictlyDescending(list) ==
  \A i \in 1..(Len(list) - 1) : IdLess(list[i + 1].id, list[i].id)

C1_SortedDescending == StrictlyDescending(recent.list)

\* a merge of a new record older than everything cached, into a non-empty cache
C1_Witness ==
  /\ last.op = "merge"
  /\ last.before.list # <<>>
  /\ \E k \in 1..Len(last.batch) :
       /\ last.batch[k].message.log \notin last.before.set
       /\ \A i \in 1..Len(last.before.list) :
            IdLess(last.batch[k].id, last.before.list[i].id)
  /\ \E k \in 1..Len(last.batch) :
       \A i \in 1..Len(last.before.list) :
         IdLess(last.before.list[i].id, last.batch[k].id)

(***************************************************************************)
(* C2.  A merged record whose raw text is not cached is placed immediately *)
(* before the first cached record with a smaller id, at the very end when  *)
(* there is none; the records cached before are retained in their order.   *)
(***************************************************************************)
PlaceBeforeFirstSmaller(list, r) ==
  LET smaller == {i \in 1..Len(list) : list[i].id < r.id}
      j == IF smaller = {} THEN Len(list) + 1
           ELSE CHOOSE i \in smaller : \A k \in smaller : i <= k
  IN  SubSeq(list, 1, j - 1) \o <<r>> \o SubSeq(list, j, Len(list))

RECURSIVE ExpectedMerge(_, _, _)
ExpectedMerge(list, seen, batch) ==
  IF batch = <<>> THEN list
  ELSE LET r == Head(batch)
       IN  IF r.message.log \in seen
           THEN ExpectedMerge(list, seen, Tail(batch))
           ELSE ExpectedMerge(PlaceBeforeFirstSmaller(list, r),
                              seen \cup {r.message.log}, Tail(batch))

C2_MergePosition ==
  last.op = "merge" =>
    recent.list = ExpectedMerge(last.before.list, last.before.set, last.batch)

\* one new record merged strictly between two cached records
C2_Witness ==
  /\ last.op = "merge"
  /\ Len(last.batch) = 1
  /\ last.batch[1].message.log \notin last.before.set
  /\ \E i \in 1..(Len(recent.list) - 2) :
       /\ recent.list[i + 1] = last.batch[1]
       /\ recent.list[i] \in Range(last.before.list)
       /\ recent.list[i + 2] \in Range(last.before.list)

(***************************************************************************)
(* C4.  Merging a record whose raw text is already cached changes nothing, *)
(* whatever its id: sequence, id index and raw-text set stay as they were. *)
(***************************************************************************)
C4_MergeOfCachedTextIsNoOp ==
  (/\ last.op = "merge"
   /\ \A k \in 1..Len(last.batch) : last.batch[k].message.log \in last.before.set)
  => recent = last.before

\* a merged record with a cached raw text and an id the index does not hold
C4_Witness ==
  /\ last.op = "merge"
  /\ \A k \in 1..Len(last.batch) : last.batch[k].message.log \in last.before.set
  /\ \E k \in 1..Len(last.batch) : last.batch[k].id \notin DOMAIN last.before.map

(***************************************************************************)
(* C3.  No two records of the cached sequence have identical raw text.     *)
(***************************************************************************)
C3_NoDuplicateRawText ==
  \A i, j \in 1..Len(recent.list) :
    i # j => recent.list[i].message.log # recent.list[j].message.log

(***************************************************************************)
(* C5.  The id index and the raw-text set have the cardinality of the      *)
(* sequence; the index holds exactly the ids of the sequence's records and *)
(* the set exactly their raw texts.                                        *)
(***************************************************************************)
C5_ViewsAgree ==
  /\ Cardinality(DOMAIN recent.map) = Len(recent.list)
  /\ Cardinality(recent.set) = Len(recent.list)
  /\ DOMAIN recent.map = {recent.list[i].id : i \in 1..Len(recent.list)}
  /\ \A i \in 1..Len(recent.list) : recent.map[recent.list[i].id] = recent.list[i]
  /\ recent.set = {recent.list[i].message.log : i \in 1..Len(recent.list)}

(***************************************************************************)
(* C6.  Within one chunk the append of the next record does not begin      *)
(* while work of the current record is in flight: its broadcast, a command *)
(* handler (the translation handler included), a keyword lookup or reply.  *)
(***************************************************************************)
C6_NextRecordAfterCurrentWork ==
  /\ \A t \in tasks : procs[t.p].i <= t.i
  /\ \A n \in 1..Len(dbq) : dbq[n].cmd = "hGet" => procs[dbq[n].p].i <= dbq[n].i

(***************************************************************************)
(* C7.  The router tests every entry in table order, invokes the handler   *)
(* of each entry that matches, awaiting it before it tests the next entry, *)
(* and returns true exactly when the last entry matched.                   *)
(***************************************************************************)
MatchingUpTo(msg, e) == SelectSeq([n \in 1..e |-> n], LAMBDA n : Matches(n, msg))

C7_RouterTestsAllReturnsLast ==
  \A p \in DOMAIN procs : \A k \in 1..Len(procs[p].runs) :
    LET run == procs[p].runs[k]
        msg == procs[p].recs[k].groups.msg
    IN  /\ run.router = 1 /\ run.indicator # "none" =>
             /\ run.invoked = MatchingUpTo(msg, 7)
             /\ run.indicator = (IF UserKeywordRE(msg) THEN "true" ELSE "false")
        /\ procs[p].i = k /\ procs[p].pc = "handler" =>
             /\ run.invoked = MatchingUpTo(msg, procs[p].e)
             /\ Matches(procs[p].e, msg)
             /\ run.indicator = "none"

\* the router has invoked a handler and returned false
C7_Witness ==
  \E p \in DOMAIN procs : \E k \in 1..Len(procs[p].runs) :
    /\ procs[p].runs[k].invoked # <<>>
    /\ procs[p].runs[k].indicator = "false"

(***************************************************************************)
(* C8.  A self-authored record is persisted, cached and broadcast, and     *)
(* neither the router nor the Keyword Engine runs for it; for any other    *)
(* record the router runs exactly once and the Keyword Engine runs exactly *)
(* when the router returned false.                                         *)
(***************************************************************************)
C8_SelfExemptOthersRouted ==
  \A p \in DOMAIN procs : \A k \in 1..Len(procs[p].runs) :
    LET run == procs[p].runs[k]
        rec == procs[p].recs[k]
    IN  /\ rec.groups.self => run.router = 0 /\ run.keyword = 0
        /\ ~rec.groups.self => run.router = 1
        /\ run.keyword = (IF run.indicator = "false" THEN 1 ELSE 0)
        /\ run.broadcast = 1
        /\ run.id \in DOMAIN stream /\ stream[run.id] = Log(run.id, rec.raw)
        /\ run.id \in DOMAIN recent.map /\ recent.map[run.id] = Log(run.id, rec.raw)
        /\ Log(run.id, rec.raw) \in Range(recent.list)

\* one process has finished a self-authored record, another record was
\* handed to the Keyword Engine
C8_Witness ==
  /\ \E p \in DOMAIN procs : \E k \in 1..Len(procs[p].runs) :
       /\ procs[p].recs[k].groups.self
       /\ procs[p].pc = "done"
  /\ \E p \in DOMAIN procs : \E k \in 1..Len(procs[p].runs) :
       procs[p].runs[k].keyword = 1

(***************************************************************************)
(* C9.  The Keyword Engine is tested for a record only when no pattern of  *)
(* the router table matched its body.                                      *)
(***************************************************************************)
C9_KeywordsOnlyWithoutCommand ==
  \A p \in DOMAIN procs : \A k \in 1..Len(procs[p].runs) :
    procs[p].runs[k].keyword > 0 =>
      \A e \in 1..LastEntry : ~Matches(e, procs[p].recs[k].groups.msg)

(***************************************************************************)
(* C10.  When the processing of an incoming event begins, the handlers of  *)
(* every event that came before it have completed, also across chunks.     *)
(***************************************************************************)
Finished(p) ==
  /\ procs[p].pc = "done"
  /\ \A t \in tasks : t.p = p => t.kind = "broadcast"

C10_OneEventAtATime ==
  \A p, q \in DOMAIN procs : p < q => Finished(p)

(***************************************************************************)
(* C11.  During startup nothing is processed and the sink is switched over *)
(* only once the historical load has settled; every chunk longer than the  *)
(* threshold that arrives before is appended to the buffer, the buffer is  *)
(* changed by nothing else, and the switch-over empties it by handing each *)
(* buffered chunk to acceptKoukoku exactly once, in arrival order.         *)
(***************************************************************************)
HasRecords(data) == matchAll(data) # <<>>

ChunksOf(ps) == [p \in 1..Len(ps) |-> ps[p].data]

BufferStep ==
  /\ \A data \in Chunks :
       PostponeKoukoku(data) /\ Threshold < data.byteLength =>
         pending' = Append(pending, data)
  /\ pending' # pending =>
       \/ \E data \in Chunks : PostponeKoukoku(data)
       \/ /\ phase = "starting" /\ phase' = "live"
          /\ ChunksOf(procs') = SelectSeq(pending, HasRecords)

C11_BufferedHandedOverInOrder ==
  /\ [](phase # "live" => procs = <<>> /\ stream = StreamOf(Backlog))
  /\ [](phase = "live" => "queryLogAsync" \in settled /\ pending = <<>>)
  /\ [][BufferStep]_vars

\* the switch-over has handed over two buffered chunks: both are in process,
\* in arrival order, and neither has got its first reply
C11_Witness ==
  /\ phase = "live"
  /\ Len(procs) = 2
  /\ \A p \in 1..2 : procs[p].pc = "xAdd" /\ procs[p].i = 1 /\ procs[p].runs = <<>>
  /\ procs[1].data # procs[2].data

(***************************************************************************)
(* C12.  A failure inside a command handler does not end the processing of *)
(* the chunk: no invocation of acceptKoukoku is abandoned while the router *)
(* is still at an entry of its table, with that record's remaining entries *)
(* untested and the chunk's remaining records unprocessed.                 *)
(***************************************************************************)
C12_HandlerFailureContained ==
  \A p \in DOMAIN procs :
    procs[p].pc = "rejected" /\ procs[p].runs # <<>> =>
      procs[p].runs[procs[p].i].indicator # "none"

(***************************************************************************)
(* C13.  A 'data' event whose chunk is shorter than the threshold, before  *)
(* or after the switch-over and whatever records the chunk frames, changes *)
(* nothing: no buffering, no command to the database, no cache insertion,  *)
(* no broadcast, no routing, no keyword test, no reply.                    *)
(***************************************************************************)
DataEvent(data) == PostponeKoukoku(data) \/ AcceptKoukoku(data)

BelowThresholdStep ==
  \A data \in Chunks :
    data.byteLength < Threshold /\ DataEvent(data) =>
      UNCHANGED <<stream, recent, pending, store, userKeywords, procs, dbq, tasks, sent>>

C13_BelowThresholdProducesNothing == [][BelowThresholdStep]_vars

\* the feed is exhausted in the live phase, part of it before the switch-over,
\* and no chunk was buffered or processed
C13_Witness ==
  /\ phase = "live"
  /\ received = MaxRecords
  /\ procs = <<>>
  /\ stream = StreamOf(Backlog)

(***************************************************************************)
(* C14.  When no qualifier is rejected, the outcome of validateParentheses *)
(* is determined by the number of opening minus closing parentheses: zero  *)
(* returns; a positive count throws the missing-closing message with that  *)
(* count; a negative count throws the invalid-closing message.             *)
(***************************************************************************)
Count(chars, c) == Len(SelectSeq(chars, LAMBDA x : x = c))

OpenCount(chars) == Count(chars, "(") - Count(chars, ")")

C14_OutcomeByOpenCount ==
  outcome # Unchecked /\ outcome.message # "notFunction" =>
    LET n == OpenCount(expr)
    IN  /\ n = 0 => outcome = Returned
        /\ n > 0 => outcome = Error("missingClosing", n, <<>>)
        /\ n < 0 => outcome = Error("invalidClosing", 0, <<>>)

(***************************************************************************)
(* C15.  For a record the Keyword Engine tests: if the ignore filter       *)
(* rejects it, no lookup is made and no reply is sent; otherwise every     *)
(* reply is for a keyword that occurs in the body and carries a value the  *)
(* keyword was registered with, and once its lookups have returned every   *)
(* keyword registered throughout that occurs in the body has its reply.    *)
(***************************************************************************)
KeywordReplies(p, k) == {m \in sent : m.p = p /\ m.i = k /\ m.keyword # <<>>}

Records == UNION {{<<p, k>> : k \in 1..Len(procs[p].recs)} : p \in DOMAIN procs}

GroupsOf(x) == UserKeywordGroups(procs[x[1]].recs[x[2]].groups.msg)

\* the values the keywords were ever stored with: those the store held when
\* the bot started and those of the registration commands of the feed
Bindings ==
  Range(InitialStore) \cup
  {[key |-> <<GroupsOf(x).name>>, value |-> GroupsOf(x).value] :
     x \in {y \in Records : GroupsOf(y).command = "touroku"}}

\* keywords registered when the bot started that no command of the feed removes
Lasting ==
  {keyword \in Range(hKeys(InitialStore)) :
     \A x \in Records : GroupsOf(x).command = "kaijo" => <<GroupsOf(x).name>> # keyword}

C15_OneReplyPerKeywordInBody ==
  \A p \in DOMAIN procs : \A k \in 1..Len(procs[p].runs) :
    LET rec == procs[p].recs[k]
        msg == rec.groups.msg
    IN  procs[p].runs[k].keyword = 1 =>
          /\ ~shouldBeAccepted(rec) =>
               KeywordReplies(p, k) = {} /\ Lookups(Cur, p, k) = {}
          /\ \A m \in KeywordReplies(p, k) :
               /\ Includes(msg, m.keyword)
               /\ [key |-> m.keyword, value |-> m.text] \in Bindings
          /\ shouldBeAccepted(rec) /\ Lookups(Cur, p, k) = {} /\ procs[p].pc # "keywords" =>
               \A keyword \in Lasting :
                 Includes(msg, keyword) => \E m \in KeywordReplies(p, k) : m.keyword = keyword

(***************************************************************************)
(* C16.  Once the startup synchronization has returned and while no        *)
(* keyword command is in flight, the local keyword set holds exactly the   *)
(* keys of the store; the two change only by the startup synchronization,  *)
(* by a registration of a key the store does not hold, which adds the name *)
(* to both, and by a removal of a key it holds, which deletes it in both.  *)
(***************************************************************************)
KeywordCommandInFlight ==
  \E n \in 1..Len(dbq) : dbq[n].cmd \in {"hKeys", "hSetNX", "hDel"}

KeywordStep ==
  store' # store \/ userKeywords' # userKeywords =>
    \/ phase = "constructed" /\ phase' = "starting" /\ store' = store
    \/ /\ dbq # <<>>
       /\ LET c == Head(dbq)
              keys == Range(hKeys(store))
          IN  \/ c.cmd = "hKeys" /\ store' = store
              \/ /\ c.cmd = "hSetNX" /\ <<Head(c.x)>> \notin keys
                 /\ store' = Append(store, [key |-> <<Head(c.x)>>, value |-> Tail(c.x)])
                 /\ userKeywords' = Append(userKeywords, <<Head(c.x)>>)
              \/ /\ c.cmd = "hDel" /\ <<Head(c.x)>> \in keys
                 /\ Range(hKeys(store')) = keys \ {<<Head(c.x)>>}
                 /\ Range(userKeywords') = Range(userKeywords) \ {<<Head(c.x)>>}

C16_KeywordSetMirrorsStore ==
  /\ []("queryUserKeywordsAsync" \in settled /\ ~KeywordCommandInFlight =>
          /\ Range(userKeywords) = Range(hKeys(store))
          /\ Len(userKeywords) = Len(store))
  /\ [][KeywordStep]_vars

\* a registration and a removal have both succeeded and no keyword command
\* is in flight
C16_Witness ==
  /\ ~KeywordCommandInFlight
  /\ \E m \in sent : m.text[1] = "registered"
  /\ \E m \in sent : m.text[1] = "unregistered"
  /\ Range(userKeywords) = Range(hKeys(store))

(***************************************************************************)
(* C17.  The connection to the feed is ended only when every cleanup job   *)
(* of the disposal (web, gist deletions, database disconnect) has settled. *)
(***************************************************************************)
C17_TransportReleasedLast ==
  client = "ended" => \A n \in DOMAIN jobs : jobs[n].state # "pending"

(***************************************************************************)
(* C18.  In the live phase every change of the cache is one insertion at   *)
(* the head, of a record whose id is greater than the id of every record   *)
(* cached before, also while several chunks are in process.                *)
(***************************************************************************)
HeadInsertStep ==
  phase = "live" /\ recent' # recent =>
    /\ Len(recent'.list) = Len(recent.list) + 1
    /\ Tail(recent'.list) = recent.list
    /\ \A n \in 1..Len(recent.list) : IdLess(recent.list[n].id, Head(recent'.list).id)

C18_LiveAppendAtHeadGreatest == [][HeadInsertStep]_vars

\* two chunks in process at once: the record of the second is cached while
\* the first, whose record is cached too, has not finished
C18_Witness ==
  /\ Len(procs) >= 2
  /\ procs[1].runs # <<>> /\ procs[1].pc \notin {"done", "rejected"}
  /\ procs[2].runs # <<>>
  /\ Head(recent.list).id = procs[2].runs[Len(procs[2].runs)].id

(***************************************************************************)
(* C19.  A chunk whose byte length is the threshold or more and that       *)
(* frames a record is processed: before the switch-over it is buffered,    *)
(* after it an invocation of acceptKoukoku begins with its first record.   *)
(***************************************************************************)
AtThresholdStep ==
  \A data \in Chunks :
    Threshold <= data.byteLength /\ HasRecords(data) =>
      /\ PostponeKoukoku(data) => pending' = Append(pending, data)
      /\ AcceptKoukoku(data) =>
           /\ Len(procs') = Len(procs) + 1
           /\ procs'[Len(procs')].data = data
           /\ Len(stream') = Len(stream) + 1

C19_AtThresholdProcessed == [][AtThresholdStep]_vars

(***************************************************************************)
(* C20.  When the tokens of a user-keyword command select no key of the    *)
(* template, a syntax-error reply is sent before the handler returns.      *)
(***************************************************************************)
C20_NoSilentKeywordCommand ==
  \A p \in DOMAIN procs : \A k \in 1..Len(procs[p].runs) :
    LET msg == procs[p].recs[k].groups.msg
    IN  (/\ UserKeywordRE(msg)
         /\ procs[p].runs[k].indicator = "true"
         /\ determineUserKeywordCommandHandler(UserKeywordGroups(msg)) \notin TemplateKeys)
        => \E m \in sent : m.p = p /\ m.i = k /\ m.text[1] = "syntax"

(***************************************************************************)
(* C21.  validateParentheses throws the not-a-function error exactly when  *)
(* a parenthesis is immediately preceded by a name (a run of characters    *)
(* that are neither parentheses, operators, digits nor blanks) other than  *)
(* cos, exp, log, sin and tan; a name followed by an operator, a digit or  *)
(* a blank, such as E before +, never raises it.                           *)
(***************************************************************************)
IsParenthesis(c) == c \in {"(", ")"}

IsNameChar(c) == c \notin DOMAIN valueForParenthesis

\* the name that ends just before position i
RECURSIVE NameBefore(_, _)
NameBefore(chars, i) ==
  IF i > 1 /\ IsNameChar(chars[i - 1])
  THEN Append(NameBefore(chars, i - 1), chars[i - 1])
  ELSE <<>>

RejectedAtParenthesis(chars) ==
  \E i \in 1..Len(chars) :
    /\ IsParenthesis(chars[i])
    /\ NameBefore(chars, i) # <<>>
    /\ NameBefore(chars, i) \notin Functions

C21_NotFunctionOnlyBeforeParenthesis ==
  outcome # Unchecked =>
    (outcome.message = "notFunction" <=> RejectedAtParenthesis(expr))

(***************************************************************************)
(* C22.  While a keyword lookup started for a record, or the reply made    *)
(* from it, has not settled, acceptKoukoku is still handling that record   *)
(* in the Keyword Engine: it has neither moved on to the next record nor   *)
(* failed.                                                                 *)
(***************************************************************************)
LookupInFlight(p, i) == Lookups(Cur, p, i) # {} \/ Replies(Cur, p, i) # {}

C22_HandlingLastsUntilLookupsSettle ==
  \A p \in DOMAIN procs : \A i \in 1..Len(procs[p].recs) :
    LookupInFlight(p, i) => procs[p].i = i /\ procs[p].pc = "keywords"

(***************************************************************************)
(* C23.  Only the live append and the historical merge change the Recency  *)
(* Cache: after the log retrieval, the tally or the handing of the         *)
(* snapshot to a web client the sequence, the id index and the raw-text    *)
(* set are what they were before.                                          *)
(***************************************************************************)
Readers == {"locate", "tally", "notify"}

C23_ReadersLeaveCacheUnchanged ==
  last.op \in Readers =>
    /\ recent.list = last.before.list
    /\ recent.map = last.before.map
    /\ recent.set = last.before.set

\* a log retrieval that took fewer records than the cache holds
C23_Witness ==
  /\ last.op = "locate"
  /\ last.batch # <<>>
  /\ Len(last.batch) < Len(recent.list)

(***************************************************************************)
(* C24.  In BotService, for every 'message' event: the broadcast is made   *)
(* once, after prepend has returned the item; for a message that is not    *)
(* self-authored exactly one action is invoked besides, the execute of the *)
(* first command service in resolver order whose match on the body         *)
(* succeeds, with that match, or the user-keyword test when no command     *)
(* service matches; for a self-authored message none is invoked; and the   *)
(* handler has completed only when the broadcast and that action have      *)
(* settled.                                                                *)
(***************************************************************************)
FirstMatching(body) ==
  LET hits == {n \in 1..Len(CommandServices) : CommandServices[n] \in body}
  IN  IF hits = {} THEN Handler("test", "userKeywordService", Undefined)
      ELSE LET n == CHOOSE k \in hits : \A j \in hits : k <= j
           IN  Handler("execute", CommandServices[n], [by |-> CommandServices[n]])

Completed(q) == q.pc \in {"done", "rejected"}

====
